---- MODULE Spec2Model ----
(***************************************************************************)
(* Matchmaking and moderation engine of the anonymous chat bot (src/bot.py) *)
(* in its in-memory mode (db_pool = None).  Every handler is one coroutine  *)
(* of the asyncio loop: it runs without interruption up to its next         *)
(* suspending await (a transport call, the subscription check, the sleep of *)
(* the wait task) and resumes in a later step.  Calls that do not suspend   *)
(* in this mode (the helpers over the memory_* containers) are part of the  *)
(* step that makes them.                                                    *)
(***************************************************************************)
EXTENDS Integers, Sequences, FiniteSets, Bags, TLC

\* ---------------------------------------------------------------- bounds
NumUsers == 3
MaxInFlight == 1
MaxTasks == 2
MaxQueue == 2
MaxReports == 1
\* iterations of the wait loop explored (the source loops range(30) times)
WaitTicks == 2

\* ------------------------------------------------------- program constants
AutoBanThreshold == 5

Users == 1..NumUsers
None == 0
\* the participants the moderator's commands name in the explored runs
Moderated == {NumUsers}
\* the participants who file reports in the explored runs
Reporters == {1}
\* the two participants of the runs in which nobody else acts
Searchers == {1, 2}
\* the suspension points whose transport call raises in some explored runs
FailingSends == {"unban", "rr", "relay"}
Outcomes(pc) == IF pc \in FailingSends THEN BOOLEAN ELSE {TRUE}
MODERATOR_ID == NumUsers + 1

VARIABLES
    memory_queue,     \* deque of uids, in insertion order
    memory_pairs,     \* uid -> partner uid, None when absent
    memory_status,    \* uid -> "absent" | "idle" | "searching" | "chatting"
    memory_banned,    \* set of uids
    memory_reports,   \* list of report records
    all_complaints,   \* uid -> complaint count (0 when absent)
    user_reporting,   \* uid -> partner named by the report draft, None when absent
    waiting_tasks,    \* keys of the dict uid -> registered wait task
    tasks,            \* bag of live wait_for_partner tasks
    inflight,         \* bag of handler coroutines suspended at an await
    budget,           \* report submissions still explored
    db_engine         \* the store of a second engine, started with db_pool set

vars == <<memory_queue, memory_pairs, memory_status, memory_banned, memory_reports,
          all_complaints, user_reporting, waiting_tasks, tasks, inflight, budget,
          db_engine>>

\* ------------------------------------------------------------ bag helpers
BagAdd(B, e) == B (+) SetToBag({e})
BagDel(B, e) == B (-) SetToBag({e})

\* ------------------------------------------------- the store the helpers act on
Mem ==
    [queue |-> memory_queue, pairs |-> memory_pairs, status |-> memory_status,
     banned |-> memory_banned, reports |-> memory_reports,
     complaints |-> all_complaints, reporting |-> user_reporting,
     wt |-> waiting_tasks, tasks |-> tasks, co |-> inflight, out |-> {},
     db_pool |-> FALSE]

\* the store of an engine whose init_db has connected: queue and pairs are the
\* tables of that name, rows the user_id column of users, flagged the users
\* with banned = TRUE, lookups the wait tasks that have their find_partner
\* result and have not run create_pair yet; the other fields are the
\* module-level containers, which this engine keeps as well
Relational(known) ==
    [queue |-> <<>>, pairs |-> [u \in Users |-> None],
     status |-> [u \in Users |-> IF u \in known THEN "idle" ELSE "absent"],
     banned |-> {}, reports |-> <<>>, complaints |-> [u \in Users |-> 0],
     reporting |-> [u \in Users |-> None], wt |-> {}, tasks |-> EmptyBag,
     co |-> EmptyBag, out |-> {}, db_pool |-> TRUE,
     rows |-> known, flagged |-> {}, lookups |-> {}]

Commit(S) ==
    /\ memory_queue' = S.queue
    /\ memory_pairs' = S.pairs
    /\ memory_status' = S.status
    /\ memory_banned' = S.banned
    /\ memory_reports' = S.reports
    /\ all_complaints' = S.complaints
    /\ user_reporting' = S.reporting
    /\ waiting_tasks' = S.wt
    /\ tasks' = S.tasks
    /\ inflight' = S.co

send_message(S, to, text) == [S EXCEPT !.out = @ \cup {<<to, text>>}]

\* ---------------------------------------------------------------- helpers
ensure_user(S, uid) ==
    IF S.db_pool
    THEN [S EXCEPT !.rows = @ \cup {uid}, !.status[uid] = "idle"]
    ELSE [S EXCEPT !.status[uid] = "idle"]

\* INSERT INTO queue ... ON CONFLICT DO NOTHING, or memory_queue.append
add_to_queue(S, uid) ==
    IF S.db_pool
    THEN [S EXCEPT !.queue = IF \E k \in 1..Len(@) : @[k] = uid THEN @ ELSE Append(@, uid),
                   !.status[uid] = "searching"]
    ELSE [S EXCEPT !.queue = Append(@, uid), !.status[uid] = "searching"]

remove_from_queue(S, uid) ==
    [S EXCEPT !.queue = SelectSeq(@, LAMBDA x : x # uid), !.status[uid] = "idle"]

\* find_partner walking the queue from its newest entry
find_partner_newest(S, exclude_id) ==
    LET others == SelectSeq(S.queue, LAMBDA x : x # exclude_id)
    IN  IF Len(others) > 0 THEN others[Len(others)] ELSE None

find_partner(S, exclude_id) ==
    LET others == SelectSeq(S.queue, LAMBDA x : x # exclude_id)
    IN  IF Len(others) > 0 THEN Head(others) ELSE None

get_partner(S, uid) == S.pairs[uid]

\* with db_pool: DELETE FROM queue; INSERT INTO pairs ... ON CONFLICT DO NOTHING
\* (a row whose user_id has a pairs row already is skipped)
create_pair(S, a, b) ==
    LET S1 == IF S.db_pool
              THEN [S EXCEPT !.pairs = [u \in Users |->
                                            IF @[u] # None THEN @[u]
                                            ELSE IF u = a THEN b
                                            ELSE IF u = b THEN a
                                            ELSE None]]
              ELSE [S EXCEPT !.pairs = [@ EXCEPT ![a] = b, ![b] = a]]
        S2 == remove_from_queue(S1, a)
        S3 == remove_from_queue(S2, b)
    IN  [S3 EXCEPT !.status = [@ EXCEPT ![a] = "chatting", ![b] = "chatting"]]

\* break_pair with the status write moved out of its "if partner" guard
break_pair_always_idle(S, uid) ==
    LET partner == get_partner(S, uid)
    IN  IF partner # None
        THEN [S EXCEPT !.pairs = [@ EXCEPT ![uid] = None, ![partner] = None],
                       !.status = [@ EXCEPT ![uid] = "idle", ![partner] = "idle"]]
        ELSE [S EXCEPT !.status[uid] = "idle"]

break_pair(S, uid) ==
    LET partner == get_partner(S, uid)
    IN  IF partner # None
        THEN [S EXCEPT !.pairs = [@ EXCEPT ![uid] = None, ![partner] = None],
                       !.status = [@ EXCEPT ![uid] = "idle", ![partner] = "idle"]]
        ELSE S

\* the value break_pair returns: the former partner, or None
break_pair_result(S, uid) ==
    LET partner == get_partner(S, uid)
    IN  IF partner # None THEN partner ELSE None

\* SELECT banned FROM users WHERE user_id = uid, or uid in memory_banned
is_banned(S, uid) == IF S.db_pool THEN uid \in S.flagged ELSE uid \in S.banned

\* UPDATE users SET banned = flag WHERE user_id = uid (nothing without db_pool,
\* nothing for a uid without users row)
set_banned_row(S, uid, flag) ==
    IF ~S.db_pool THEN S
    ELSE IF flag THEN [S EXCEPT !.flagged = @ \cup ({uid} \cap S.rows)]
    ELSE [S EXCEPT !.flagged = @ \ {uid}]

\* waiting_tasks[uid].cancel(); del waiting_tasks[uid]
cancel_task(S, uid) ==
    IF uid \in S.wt
    THEN [S EXCEPT !.tasks = [t \in {x \in DOMAIN @ : ~(x.uid = uid /\ x.reg)} |-> @[t]],
                   !.wt = @ \ {uid}]
    ELSE S

\* if uid in waiting_tasks: del waiting_tasks[uid]  (run by a wait task that has
\* already left the bag; a live task it unregisters can no longer be cancelled)
del_waiting(S, uid) ==
    LET regs == {x \in DOMAIN S.tasks : x.uid = uid /\ x.reg}
        unreg(B) == IF regs = {} THEN B
                    ELSE LET t == CHOOSE x \in regs : TRUE
                         IN  BagAdd(BagDel(B, t), [t EXCEPT !.reg = FALSE])
    IN  IF uid \in S.wt
        THEN [S EXCEPT !.tasks = unreg(@), !.wt = @ \ {uid}]
        ELSE S

\* task = asyncio.create_task(wait_for_partner(uid)); waiting_tasks[uid] = task
register_task(S, uid) ==
    LET S1 == del_waiting(S, uid)
    IN  [S1 EXCEPT !.tasks = BagAdd(@, [uid |-> uid, i |-> 0, pc |-> "sleep", reg |-> TRUE]),
                   !.wt = @ \cup {uid}]

\* ------------------------------------------------------------- moderation
\* the state update of ban_user_complete / ban_user_auto, up to their first send
ban_cascade(S, uid) ==
    LET S1 == [S EXCEPT !.banned = @ \cup {uid}]
        S2 == cancel_task(S1, uid)
        S3 == remove_from_queue(S2, uid)
        partner == get_partner(S3, uid)
        S4 == break_pair(S3, uid)
    IN  IF partner # None THEN send_message(S4, partner, "partner_left") ELSE S4

ban_user_complete(S, uid) ==
    set_banned_row(send_message(ban_cascade(S, uid), uid, "banned_by_moderator"), uid, TRUE)

ban_user_auto(S, uid) == ban_cascade(S, uid)

clear_complaints(S, uid) ==
    [S EXCEPT !.complaints[uid] = 0,
              !.reports = SelectSeq(@, LAMBDA r : r.to # uid)]

\* ------------------------------------------------------------------ search
\* search_for_user up to its first suspension; cont is the participant whose
\* search next_cmd runs after this one (None for a plain search)
then_search(S, cont) ==
    IF cont = None THEN S
    ELSE IF is_banned(S, cont) THEN send_message(S, cont, "you_are_banned")
    ELSE IF get_partner(S, cont) # None THEN send_message(S, cont, "already_in_chat")
    ELSE [S EXCEPT !.co = BagAdd(@, [pc |-> "sub", uid |-> cont, cont |-> None])]

\* search_for_user without its is_banned check
search_for_user_unchecked(S, uid, cont) ==
    IF get_partner(S, uid) # None
    THEN then_search(send_message(S, uid, "already_in_chat"), cont)
    ELSE [S EXCEPT !.co = BagAdd(@, [pc |-> "sub", uid |-> uid, cont |-> cont])]

search_for_user(S, uid, cont) ==
    IF is_banned(S, uid) THEN then_search(send_message(S, uid, "you_are_banned"), cont)
    ELSE IF get_partner(S, uid) # None
         THEN then_search(send_message(S, uid, "already_in_chat"), cont)
    ELSE [S EXCEPT !.co = BagAdd(@, [pc |-> "sub", uid |-> uid, cont |-> cont])]

\* ------------------------------------------------------- exploration limits
Bounded(S) ==
    /\ BagCardinality(S.co) <= MaxInFlight
    /\ BagCardinality(S.tasks) <= MaxTasks
    /\ Len(S.queue) <= MaxQueue

Step(S) == Bounded(S) /\ Commit(S) /\ UNCHANGED <<budget, db_engine>>

\* ------------------------------------------------------------------- Init
Init ==
    /\ memory_queue = <<>>
    /\ memory_pairs = [u \in Users |-> None]
    /\ memory_status = [u \in Users |-> "absent"]
    /\ memory_banned = {}
    /\ memory_reports = <<>>
    /\ all_complaints = [u \in Users |-> 0]
    /\ user_reporting = [u \in Users |-> None]
    /\ waiting_tasks = {}
    /\ tasks = EmptyBag
    /\ inflight = EmptyBag
    /\ budget = MaxReports
    /\ db_engine = Relational({})

\* ------------------------------------------------------ participant handlers
\* /search and the search button: search_for_user(uid)
search(uid) == Step(search_for_user(Mem, uid, None))

\* search_for_user resumed after check_subscription
search_subscribed(c, ok) ==
    /\ c \in DOMAIN inflight /\ c.pc = "sub"
    /\ LET S0 == [Mem EXCEPT !.co = BagDel(@, c)]
       IN  IF ok
           THEN Step(send_message(
                     [add_to_queue(S0, c.uid) EXCEPT !.co = BagAdd(@, [c EXCEPT !.pc = "send"])],
                     c.uid, "searching"))
           ELSE Step(then_search(send_message(S0, c.uid, "subscribe_first"), c.cont))

\* search_for_user resumed after its "searching" message; a failed send raises
search_sent(c, ok) ==
    /\ c \in DOMAIN inflight /\ c.pc = "send"
    /\ LET S0 == [Mem EXCEPT !.co = BagDel(@, c)]
       IN  IF ok THEN Step(then_search(register_task(S0, c.uid), c.cont))
           ELSE Step(S0)

\* wait_for_partner that never looks into the queue: it only times out
wait_for_partner_timeout_only(S, t) ==
    LET S0 == [S EXCEPT !.tasks = BagDel(@, t)]
    IN  IF get_partner(S0, t.uid) # None THEN del_waiting(S0, t.uid)
        ELSE IF t.i + 1 < WaitTicks
        THEN [S0 EXCEPT !.tasks = BagAdd(@, [t EXCEPT !.i = @ + 1])]
        ELSE send_message(del_waiting(remove_from_queue(S0, t.uid), t.uid),
                          t.uid, "no_partner_found")

\* one iteration of wait_for_partner after its sleep, by task t
wait_for_partner(S, t) ==
    LET S0 == [S EXCEPT !.tasks = BagDel(@, t)]
        partner == find_partner(S0, t.uid)
    IN  IF get_partner(S0, t.uid) # None THEN del_waiting(S0, t.uid)
        ELSE IF partner # None
        THEN send_message(
                 send_message(
                   [create_pair(S0, t.uid, partner) EXCEPT
                       !.tasks = BagAdd(@, [t EXCEPT !.pc = "notify", !.i = 0])],
                   t.uid, "partner_found"), partner, "partner_found")
        ELSE IF t.i + 1 < WaitTicks
        THEN [S0 EXCEPT !.tasks = BagAdd(@, [t EXCEPT !.i = @ + 1])]
        ELSE send_message(del_waiting(remove_from_queue(S0, t.uid), t.uid),
                          t.uid, "no_partner_found")

tick(t) ==
    /\ t \in DOMAIN tasks /\ t.pc = "sleep"
    /\ Step(wait_for_partner(Mem, t))

\* wait_for_partner resumed after its two "partner found" messages
task_notified(t, ok) ==
    /\ t \in DOMAIN tasks /\ t.pc = "notify"
    /\ LET S0 == [Mem EXCEPT !.tasks = BagDel(@, t)]
       IN  IF ok THEN Step(del_waiting(S0, t.uid))
           ELSE Step(S0)

\* /cancel and the cancel button (both sit behind report_reason in the dispatcher,
\* which takes every such message of a participant with a report draft)
cancel(uid) ==
    /\ user_reporting[uid] = None
    /\ Step(send_message(remove_from_queue(cancel_task(Mem, uid), uid), uid, "search_cancelled"))

\* the state update and messages of stop_cmd
stop_cmd(S, uid) ==
    LET S1 == cancel_task(S, uid)
        partner == get_partner(S1, uid)
        S2 == break_pair(S1, uid)
        S3 == IF partner # None THEN send_message(S2, partner, "partner_left") ELSE S2
    IN  send_message(S3, uid, "chat_ended")

\* /stop (not with a report draft) and the stop button (only when paired)
stop(uid) ==
    /\ user_reporting[uid] = None \/ memory_pairs[uid] # None
    /\ Step(stop_cmd(Mem, uid))

\* /next and the next button: next_cmd up to the sends of stop_cmd
next_cmd(uid) ==
    /\ user_reporting[uid] = None \/ memory_pairs[uid] # None
    /\ LET partner == get_partner(Mem, uid)
       IN  Step([stop_cmd(Mem, uid) EXCEPT
                    !.co = BagAdd(@, [pc |-> "next", uid |-> uid, cont |-> partner])])

\* next_cmd resumed after stop_cmd: search_for_user(partner), search_for_user(uid)
next_resumed(c, ok) ==
    /\ c \in DOMAIN inflight /\ c.pc = "next"
    /\ LET S0 == [Mem EXCEPT !.co = BagDel(@, c)]
       IN  IF ~ok THEN Step(S0)
           ELSE IF c.cont # None THEN Step(search_for_user(S0, c.cont, c.uid))
           ELSE Step(search_for_user(S0, c.uid, None))

\* /start up to its subscription check (nothing is written after it)
start(uid) ==
    LET S1 == ensure_user(Mem, uid)
        S2 == break_pair(S1, uid)
        S3 == remove_from_queue(S2, uid)
    IN  Step([S3 EXCEPT !.status[uid] = "idle"])

\* relay: a message of a paired participant without report draft, up to the
\* transport call that forwards it to the partner
relay(uid) ==
    /\ user_reporting[uid] = None
    /\ get_partner(Mem, uid) # None
    /\ Step([Mem EXCEPT !.co = BagAdd(@, [pc |-> "relay", uid |-> uid,
                                          cont |-> get_partner(Mem, uid)])])

\* relay after the transport call: on an exception break_pair(sender) and one
\* answer to the sender
relay_resume(S, c, ok) ==
    LET S0 == [S EXCEPT !.co = BagDel(@, c)]
    IN  IF ok THEN S0
        ELSE send_message(break_pair(S0, c.uid), c.uid, "chat_interrupted")

relay_resumed(c, ok) ==
    /\ c \in DOMAIN inflight /\ c.pc = "relay"
    /\ Step(relay_resume(Mem, c, ok))

\* /report and the report button
report(uid) ==
    LET partner == get_partner(Mem, uid)
    IN  IF partner # None
        THEN Step(send_message([Mem EXCEPT !.reporting[uid] = partner], uid, "describe_reason"))
        ELSE Step(send_message(Mem, uid, "not_in_chat"))

cancel_report(uid) ==
    /\ user_reporting[uid] # None
    /\ Step(send_message([Mem EXCEPT !.reporting[uid] = None], uid, "report_cancelled"))

\* all_complaints[uid] += 1, and the auto-ban decision
increment_complaints(S, uid) ==
    LET S1 == [S EXCEPT !.complaints[uid] = @ + 1]
    IN  IF S1.complaints[uid] >= AutoBanThreshold /\ ~is_banned(S1, uid)
        THEN ban_user_auto(S1, uid)
        ELSE S1

auto_bans(S, uid) == S.complaints[uid] + 1 >= AutoBanThreshold /\ ~is_banned(S, uid)

\* the tail of report_reason: break_pair(uid) and its three messages
report_tail(S, uid, partner) ==
    send_message(send_message(send_message(break_pair(S, uid),
        uid, "report_sent"), partner, "reported"), MODERATOR_ID, "report")

\* report_reason: any other message of a participant with a report draft
report_reason(uid) ==
    /\ user_reporting[uid] # None
    /\ budget > 0
    /\ LET partner == user_reporting[uid]
           S1 == [Mem EXCEPT !.reporting[uid] = None]
           S2 == [S1 EXCEPT !.reports = Append(@, [id |-> Len(@) + 1, from |-> uid,
                                                  to |-> partner, ignored |-> FALSE])]
           S3 == increment_complaints(S2, partner)
           S4 == IF auto_bans(S2, partner)
                 THEN [S3 EXCEPT !.co = BagAdd(@, [pc |-> "rr", uid |-> uid, cont |-> partner])]
                 ELSE report_tail(S3, uid, partner)
       IN  Bounded(S4) /\ Commit(S4) /\ budget' = budget - 1 /\ UNCHANGED db_engine

\* report_reason resumed after the messages of ban_user_auto; a failed send raises
report_resume(S, c, ok) ==
    LET S0 == [S EXCEPT !.co = BagDel(@, c)]
    IN  IF ok
        THEN report_tail(send_message(send_message(S0,
                 c.cont, "auto_banned"), MODERATOR_ID, "autoban"), c.uid, c.cont)
        ELSE S0

report_resumed(c, ok) ==
    /\ c \in DOMAIN inflight /\ c.pc = "rr"
    /\ Step(report_resume(Mem, c, ok))

\* ------------------------------------------------------- moderator handlers
\* /ban <id> and the ban button of a report
ban_user(uid) == Step(send_message(ban_user_complete(Mem, uid), MODERATOR_ID, "banned"))

\* /unban <id> and the unban button, up to the message to the participant
unban_user(uid) ==
    Step([Mem EXCEPT !.banned = @ \ {uid},
                     !.co = BagAdd(@, [pc |-> "unban", uid |-> uid, cont |-> None])])

\* /ban or /unban with an alias that no participant has: "not found"
mod_not_found == Step(send_message(Mem, MODERATOR_ID, "not_found"))

\* the reports the moderator's list shows
active_reports(S) == SelectSeq(S.reports, LAMBDA r : ~r.ignored)

\* mod_cb "ign_<rid>": the first report with that id is marked ignored
ignore_report(S, rid) ==
    LET hits == {k \in 1..Len(S.reports) : S.reports[k].id = rid}
    IN  IF hits = {} THEN S
        ELSE LET first == CHOOSE k \in hits : \A j \in hits : k <= j
             IN  [S EXCEPT !.reports[first].ignored = TRUE]

\* the ignore button under the k-th report, which the list shows
ignore(k) ==
    /\ k \in 1..Len(memory_reports)
    /\ ~memory_reports[k].ignored
    /\ Step(send_message(ignore_report(Mem, memory_reports[k].id), MODERATOR_ID, "hidden"))

\* unban resumed after its message; a failed send raises before clear_complaints
unban_resumed(c, ok) ==
    /\ c \in DOMAIN inflight /\ c.pc = "unban"
    /\ LET S0 == [Mem EXCEPT !.co = BagDel(@, c)]
       IN  IF ok THEN Step(send_message(clear_complaints(S0, c.uid), MODERATOR_ID, "unbanned"))
           ELSE Step(S0)

\* ------------------------------------------- handlers run without interleaving
\* Each operator is a handler run from its first to its last line on store S,
\* every await returning at once (subscription valid, transport delivering).

\* search_for_user
whole_search(S, uid) ==
    IF is_banned(S, uid) \/ get_partner(S, uid) # None THEN S
    ELSE register_task(add_to_queue(S, uid), uid)

\* one iteration of wait_for_partner by task t, through its messages
whole_wait(S, t) ==
    LET S1 == wait_for_partner(S, t)
        n == [t EXCEPT !.pc = "notify", !.i = 0]
    IN  IF n \in DOMAIN S1.tasks
        THEN del_waiting([S1 EXCEPT !.tasks = BagDel(@, n)], t.uid)
        ELSE S1

\* cancel / cancel_search
whole_cancel(S, uid) == remove_from_queue(cancel_task(S, uid), uid)

\* start
whole_start(S, uid) == remove_from_queue(break_pair(ensure_user(S, uid), uid), uid)

\* unban_user
whole_unban(S, uid) ==
    clear_complaints(set_banned_row([S EXCEPT !.banned = @ \ {uid}], uid, FALSE), uid)

\* one operation on both engines: M its result on the in-memory engine, D its
\* result on the relational one
Both(M, D) ==
    /\ Bounded(M) /\ Bounded(D)
    /\ Commit(M)
    /\ db_engine' = [D EXCEPT !.out = {}]
    /\ UNCHANGED budget

twin_search(uid) == Both(whole_search(Mem, uid), whole_search(db_engine, uid))

twin_wait(t) ==
    /\ t \in DOMAIN tasks /\ t \in DOMAIN db_engine.tasks /\ t.pc = "sleep"
    /\ Both(whole_wait(Mem, t), whole_wait(db_engine, t))

twin_cancel(uid) == Both(whole_cancel(Mem, uid), whole_cancel(db_engine, uid))

twin_stop(uid) == Both(stop_cmd(Mem, uid), stop_cmd(db_engine, uid))

twin_start(uid) == Both(whole_start(Mem, uid), whole_start(db_engine, uid))

twin_ban(uid) == Both(ban_user_complete(Mem, uid), ban_user_complete(db_engine, uid))

twin_unban(uid) == Both(whole_unban(Mem, uid), whole_unban(db_engine, uid))

\* ------------------------------------- the relational engine, task by task
\* a step of the relational engine alone
DbStep(D) ==
    /\ Bounded(D)
    /\ db_engine' = [D EXCEPT !.out = {}]
    /\ UNCHANGED <<memory_queue, memory_pairs, memory_status, memory_banned,
                   memory_reports, all_complaints, user_reporting, waiting_tasks,
                   tasks, inflight, budget>>

db_search(uid) == DbStep(whole_search(db_engine, uid))

\* wait_for_partner with db_pool, from its sleep to the await inside
\* create_pair: get_partner, find_partner
db_lookup(t) ==
    /\ t \in DOMAIN db_engine.tasks /\ t.pc = "sleep"
    /\ LET S0 == [db_engine EXCEPT !.tasks = BagDel(@, t)]
           partner == find_partner(S0, t.uid)
       IN  IF get_partner(S0, t.uid) = None /\ partner # None
           THEN DbStep([S0 EXCEPT !.lookups = @ \cup {[uid |-> t.uid, partner |-> partner]}])
           ELSE DbStep(wait_for_partner(db_engine, t))

\* wait_for_partner with db_pool, from create_pair to its end
db_pair(l) ==
    /\ l \in db_engine.lookups
    /\ LET S0 == [db_engine EXCEPT !.lookups = @ \ {l}]
       IN  DbStep(del_waiting(send_message(send_message(create_pair(S0, l.uid, l.partner),
                      l.uid, "partner_found"), l.partner, "partner_found"), l.uid))

\* --------------------------------------------------------------- behaviours
\* search requests of the participants in U, and everything they start
SearchingBy(U) ==
    \/ \E u \in U : search(u)
    \/ \E c \in DOMAIN inflight, ok \in BOOLEAN : search_subscribed(c, ok)
    \/ \E c \in DOMAIN inflight : \E ok \in Outcomes(c.pc) : search_sent(c, ok)
    \/ \E t \in DOMAIN tasks : tick(t)
    \/ \E t \in DOMAIN tasks : \E ok \in Outcomes(t.pc) : task_notified(t, ok)

Searching == SearchingBy(Users)

Leaving ==
    \/ \E u \in Users : cancel(u)
    \/ \E u \in Users : stop(u)
    \/ \E u \in Users : next_cmd(u)
    \/ \E c \in DOMAIN inflight : \E ok \in Outcomes(c.pc) : next_resumed(c, ok)
    \/ \E u \in Users : start(u)

Chatting ==
    \/ \E u \in Users : relay(u)
    \/ \E c \in DOMAIN inflight : \E ok \in Outcomes(c.pc) : relay_resumed(c, ok)

Reporting ==
    \/ \E u \in Reporters : report(u)
    \/ \E u \in Reporters : cancel_report(u)
    \/ \E u \in Reporters : report_reason(u)
    \/ \E c \in DOMAIN inflight : \E ok \in Outcomes(c.pc) : report_resumed(c, ok)

Moderating ==
    \/ \E u \in Moderated : ban_user(u)
    \/ \E u \in Moderated : unban_user(u)
    \/ \E c \in DOMAIN inflight : \E ok \in Outcomes(c.pc) : unban_resumed(c, ok)
    \/ mod_not_found

\* the reports whose ignore button the moderator presses in the explored
\* runs: the most recent one
Ignorable == {Len(memory_reports)} \ {0}

Reviewing == \E k \in Ignorable : ignore(k)

\* a state the engine reaches after five reports, the first against a
\* participant unbanned since (clear_complaints dropped that record), four
\* against one participant: everybody idle again
InitMod ==
    /\ memory_queue = <<>>
    /\ memory_pairs = [u \in Users |-> None]
    /\ memory_status = [u \in Users |-> "idle"]
    /\ memory_banned = {}
    /\ memory_reports = [k \in 1..(AutoBanThreshold - 1) |->
                            [id |-> k + 1, from |-> 1 + (k % 2), to |-> NumUsers, ignored |-> FALSE]]
    /\ all_complaints = [u \in Users |-> IF u = NumUsers THEN AutoBanThreshold - 1 ELSE 0]
    /\ user_reporting = [u \in Users |-> None]
    /\ waiting_tasks = {}
    /\ tasks = EmptyBag
    /\ inflight = EmptyBag
    /\ budget = MaxReports
    /\ db_engine = Relational({})

\* matchmaking, chatting, leaving and moderation, from construction
Next == Searching \/ Chatting \/ Leaving \/ Moderating
Spec == Init /\ [][Next]_vars

\* matchmaking, reports and moderation, from four earlier reports
NextMod == Searching \/ Reporting \/ Moderating \/ Reviewing
SpecMod == InitMod /\ [][NextMod]_vars

\* the step that runs wait task t once its sleep or its send has completed
run(t) == tick(t) \/ \E ok \in Outcomes(t.pc) : task_notified(t, ok)

\* the step that resumes coroutine c once its await has completed
resume(c) ==
    \/ \E ok \in BOOLEAN : search_subscribed(c, ok)
    \/ \E ok \in Outcomes(c.pc) :
          \/ search_sent(c, ok)
          \/ next_resumed(c, ok)
          \/ relay_resumed(c, ok)
          \/ unban_resumed(c, ok)

\* the event loop: a wait task whose sleep is over runs its next iteration, a
\* coroutine whose await has completed is resumed (strongly fair, because the
\* exploration limits can disable a resumption for a while; the loop itself
\* never does)
EventLoop ==
    /\ \A u \in Users : WF_vars(\E t \in DOMAIN tasks : t.uid = u /\ run(t))
    /\ \A u \in Users : SF_vars(\E c \in DOMAIN inflight : c.uid = u /\ resume(c))

\* Spec under the scheduling of the event loop
SpecFair == Spec /\ EventLoop

\* two participants who only search, under the scheduling of the event loop
NextPair == SearchingBy(Searchers)
SpecPair == Init /\ [][NextPair]_vars /\ EventLoop

\* every participant has sent /start; both engines are idle
InitTwin ==
    /\ memory_queue = <<>>
    /\ memory_pairs = [u \in Users |-> None]
    /\ memory_status = [u \in Users |-> "idle"]
    /\ memory_banned = {}
    /\ memory_reports = <<>>
    /\ all_complaints = [u \in Users |-> 0]
    /\ user_reporting = [u \in Users |-> None]
    /\ waiting_tasks = {}
    /\ tasks = EmptyBag
    /\ inflight = EmptyBag
    /\ budget = MaxReports
    /\ db_engine = Relational(Users)

\* the same operations, one after the other, on both engines
NextTwin ==
    \/ \E u \in Users : twin_search(u)
    \/ \E t \in DOMAIN tasks : twin_wait(t)
    \/ \E u \in Users : twin_cancel(u)
    \/ \E u \in Users : twin_stop(u)
    \/ \E u \in Users : twin_start(u)
    \/ \E u \in Moderated : twin_ban(u)
    \/ \E u \in Moderated : twin_unban(u)
SpecTwin == InitTwin /\ [][NextTwin]_vars

\* the relational engine with its wait tasks interleaved
NextDb ==
    \/ \E u \in Users : db_search(u)
    \/ \E t \in DOMAIN db_engine.tasks : db_lookup(t)
    \/ \E l \in db_engine.lookups : db_pair(l)
SpecDb == InitTwin /\ [][NextDb]_vars

\* ------------------------------------------------------------------ claims
InQueue(p) == \E k \in 1..Len(memory_queue) : memory_queue[k] = p
Paired(p) == memory_pairs[p] # None

\* C1: the pair table is symmetric and one-to-one: get_partner(a) = b exactly
\* when get_partner(b) = a, nobody is its own partner, no two participants
\* have the same partner.
PairTableSymmetric ==
    \A a \in Users :
        /\ memory_pairs[a] # a
        /\ \A b \in Users : (memory_pairs[a] = b) <=> (memory_pairs[b] = a)
        /\ \A b \in Users : (a # b /\ Paired(a) /\ Paired(b)) => memory_pairs[a] # memory_pairs[b]

\* C2: no participant is in the wait queue and in the pair table at once.
NeverQueuedAndPaired == \A p \in Users : ~(InQueue(p) /\ Paired(p))

\* C3: a participant in the ban set is neither in the wait queue nor in the
\* pair table.
BannedNeverQueuedOrPaired == \A p \in memory_banned : ~InQueue(p) /\ ~Paired(p)

\* C4: each participant appears at most once in the wait queue.
QueueHasNoDuplicates ==
    \A j, k \in 1..Len(memory_queue) : memory_queue[j] = memory_queue[k] => j = k
\* C5: when A, paired with B, submits a report reason against B, the operation
\* appends exactly one record (from A, to B, not ignored), adds one to B's
\* complaint count, removes the pair A-B and leaves A and B unpaired with
\* status idle.  Where the submission auto-bans B the handler ends in a later
\* step (by return or by a raised send): there the pair A-B must be gone.
ReportEndsPairOnce ==
    [][/\ \A a \in Users :
             (report_reason(a) /\ memory_pairs[a] = user_reporting[a]) =>
                 LET b == user_reporting[a]
                     n == Len(memory_reports)
                 IN  /\ Len(memory_reports') = n + 1
                     /\ SubSeq(memory_reports', 1, n) = memory_reports
                     /\ memory_reports'[n + 1].from = a
                     /\ memory_reports'[n + 1].to = b
                     /\ memory_reports'[n + 1].ignored = FALSE
                     /\ all_complaints' = [all_complaints EXCEPT ![b] = @ + 1]
                     /\ ~auto_bans(Mem, b) =>
                           /\ memory_pairs'[a] = None /\ memory_pairs'[b] = None
                           /\ memory_status'[a] = "idle" /\ memory_status'[b] = "idle"
       /\ \A c \in DOMAIN inflight : \A ok \in Outcomes(c.pc) :
             report_resumed(c, ok) =>
                 memory_pairs'[c.uid] # c.cont /\ memory_pairs'[c.cont] # c.uid]_vars

\* C6: the report that brings the count to the threshold bans the target and
\* removes its pair and queue entry; the auto-ban happens at that report only;
\* once the ban's messages are through, the moderator has its auto-ban notice.
AutoBanExactlyOnce ==
    [][/\ \A a \in Users :
             report_reason(a) =>
                 LET b == user_reporting[a]
                 IN  /\ all_complaints'[b] >= AutoBanThreshold =>
                           b \in memory_banned' /\ memory_pairs'[b] = None
                             /\ \A k \in 1..Len(memory_queue') : memory_queue'[k] # b
                     /\ auto_bans(Mem, b) => all_complaints'[b] = AutoBanThreshold
       /\ \A c \in DOMAIN inflight : \A ok \in Outcomes(c.pc) :
             report_resumed(c, ok) =>
                 <<MODERATOR_ID, "autoban">> \in report_resume(Mem, c, ok).out]_vars

\* C7: when an unban of C has been processed, C is not banned, C's status is
\* idle, C's complaint count is 0 and no report against C remains.
UnbanClearsHistory ==
    [][\A c \in DOMAIN inflight : \A ok \in Outcomes(c.pc) :
          unban_resumed(c, ok) =>
              /\ c.uid \notin memory_banned'
              /\ memory_status'[c.uid] = "idle"
              /\ all_complaints'[c.uid] = 0
              /\ \A k \in 1..Len(memory_reports') : memory_reports'[k].to # c.uid]_vars

\* C8: a cancel by a participant whose search has resolved into a pair leaves
\* the pair table and the recorded statuses as they were.
CancelAfterPairingIsNoOp ==
    [][\A u \in Users :
          (cancel(u) /\ Paired(u)) =>
              memory_pairs' = memory_pairs /\ memory_status' = memory_status]_vars

\* C9: break_pair(p) for a participant without a pair entry returns no partner
\* and leaves pair table, queue, statuses and ban set as they are.
BreakUnpairedIsNoOp ==
    \A p \in Users :
        ~Paired(p) =>
            /\ break_pair_result(Mem, p) = None
            /\ break_pair(Mem, p).pairs = memory_pairs
            /\ break_pair(Mem, p).queue = memory_queue
            /\ break_pair(Mem, p).status = memory_status
            /\ break_pair(Mem, p).banned = memory_banned

\* an unpaired participant is waiting in the queue while two others chat
BreakUnpairedWitness ==
    \E p \in Users :
        /\ ~Paired(p) /\ InQueue(p) /\ memory_status[p] = "searching"
        /\ \E q \in Users : Paired(q)

\* C10: a search request of a banned or already paired participant is rejected:
\* nothing is enqueued, no coroutine or wait task is started, and status, pair
\* table and queue stay as they are; the participant is told why.
SearchRejectedIsNoOp ==
    \A u \in Users :
        (is_banned(Mem, u) \/ Paired(u)) =>
            /\ [search_for_user(Mem, u, None) EXCEPT !.out = {}] = Mem
            /\ search_for_user(Mem, u, None).out \in
                  {{<<u, "you_are_banned">>}, {<<u, "already_in_chat">>}}

\* a banned, unpaired participant and a chatting pair exist together
SearchRejectedWitness ==
    /\ \E u \in Users : is_banned(Mem, u) /\ ~Paired(u)
    /\ \E v \in Users : Paired(v) /\ ~is_banned(Mem, v)

\* C11: after a participant's cancel it has no wait-queue entry, its status is
\* idle and no wait task of that participant is still running (so nothing can
\* pair it before its next search request).
CancelStopsSearch ==
    [][\A u \in Users :
          cancel(u) =>
              /\ \A k \in 1..Len(memory_queue') : memory_queue'[k] # u
              /\ memory_status'[u] = "idle"
              /\ \A t \in DOMAIN tasks' : t.uid # u]_vars

\* C17: when the transport call of a relay fails, the pair of sender and
\* partner is removed, both have status idle, the relay is not started again,
\* and the sender and the partner are both sent a chat-ended notification.
RelayFailureEndsChat ==
    [][\A c \in DOMAIN inflight :
          (c.pc = "relay" /\ memory_pairs[c.uid] = c.cont /\ relay_resumed(c, FALSE)) =>
              /\ memory_pairs'[c.uid] = None /\ memory_pairs'[c.cont] = None
              /\ memory_status'[c.uid] = "idle" /\ memory_status'[c.cont] = "idle"
              /\ \A d \in DOMAIN inflight' : d.pc # "relay"
              /\ \E text \in {"chat_interrupted", "partner_left"} :
                    <<c.uid, text>> \in relay_resume(Mem, c, FALSE).out
              /\ \E text \in {"chat_interrupted", "partner_left"} :
                    <<c.cont, text>> \in relay_resume(Mem, c, FALSE).out]_vars

\* C18: a moderator ban or unban whose target is no known participant (an
\* alias nobody has, or the raw id of somebody the engine has never seen)
\* changes neither ban set, complaint counts, reports, queue nor pair table.
UnknownTargetRejected ==
    [][/\ mod_not_found =>
             UNCHANGED <<memory_banned, all_complaints, memory_reports,
                         memory_queue, memory_pairs>>
       /\ \A u \in Moderated :
             (memory_status[u] = "absent" /\ (ban_user(u) \/ unban_user(u))) =>
                 UNCHANGED <<memory_banned, all_complaints, memory_reports,
                             memory_queue, memory_pairs>>]_vars

\* C19: when a wait task of p creates a pair, the partner is not p and is the
\* first entry of the wait queue that is not p: every entry queued before the
\* partner's is p's own.
PartnerIsEarliestQueued ==
    [][\A t \in DOMAIN tasks :
          (tick(t) /\ memory_pairs[t.uid] = None /\ memory_pairs'[t.uid] # None) =>
              LET q == memory_pairs'[t.uid]
              IN  /\ q # t.uid
                  /\ memory_pairs'[q] = t.uid
                  /\ \E k \in 1..Len(memory_queue) :
                        /\ memory_queue[k] = q
                        /\ \A j \in 1..(k - 1) : memory_queue[j] = t.uid]_vars

\* a wait task of an unpaired participant is about to look for a partner
\* while two other participants are queued one behind the other
PartnerIsEarliestQueuedWitness ==
    \E t \in DOMAIN tasks :
        /\ t.pc = "sleep" /\ ~Paired(t.uid)
        /\ \E j, k \in 1..Len(memory_queue) :
              /\ j < k
              /\ memory_queue[j] # memory_queue[k]
              /\ memory_queue[j] # t.uid /\ memory_queue[k] # t.uid

\* C20: right after the state update of a ban of p (manual, or automatic at the
\* fifth complaint) p is in the ban set, has no queue entry and no pair entry,
\* p's former partner is unpaired, idle and sent a chat-ended notification,
\* and no wait task of p is live.
BanCascadesCompletely ==
    [][/\ \A p \in Moderated :
             ban_user(p) =>
                 LET partner == memory_pairs[p]
                 IN  /\ p \in memory_banned'
                     /\ \A k \in 1..Len(memory_queue') : memory_queue'[k] # p
                     /\ memory_pairs'[p] = None
                     /\ partner # None =>
                           /\ memory_pairs'[partner] = None
                           /\ memory_status'[partner] = "idle"
                           /\ <<partner, "partner_left">> \in ban_user_complete(Mem, p).out
                     /\ \A t \in DOMAIN tasks' : t.uid # p
       /\ \A a \in Users :
             (report_reason(a) /\ auto_bans(Mem, user_reporting[a])) =>
                 LET p == user_reporting[a]
                     partner == memory_pairs[p]
                 IN  /\ p \in memory_banned'
                     /\ \A k \in 1..Len(memory_queue') : memory_queue'[k] # p
                     /\ memory_pairs'[p] = None
                     /\ partner # None =>
                           /\ memory_pairs'[partner] = None
                           /\ memory_status'[partner] = "idle"
                           /\ <<partner, "partner_left">> \in ban_user_auto(Mem, p).out
                     /\ \A t \in DOMAIN tasks' : t.uid # p]_vars

\* C12: under the event loop's scheduling every participant that is in the
\* wait queue eventually is not: it is paired, or its wait task runs out and
\* dequeues it; no command of the participant leaves an entry for ever.
QueueEntryEventuallyLeaves == \A p \in Users : InQueue(p) ~> ~InQueue(p)

DraftOnlyWhilePaired ==
    \A u \in Users : user_reporting[u] # None => memory_pairs[u] = user_reporting[u]

\* C15: a report reason is submitted only by a paired reporter, the record's
\* target is the reporter's partner at that moment, only that target's
\* complaint count grows, and no pair other than reporter-target ends.
ReportTargetsCurrentPartner ==
    [][\A a \in Users :
          report_reason(a) =>
              LET n == Len(memory_reports)
                  b == memory_reports'[n + 1].to
              IN  /\ memory_pairs[a] # None
                  /\ b = memory_pairs[a]
                  /\ \A u \in Users \ {b} : all_complaints'[u] = all_complaints[u]
                  /\ \A u \in Users \ {a, b} :
                        memory_pairs[u] \notin {a, b} => memory_pairs'[u] = memory_pairs[u]]_vars

\* C16: the ignore button of a report sets the ignored flag of that report and
\* nothing else: every record is retained, the other records, the complaint
\* counts, the ban set, the pair table and the queue are unchanged, and the
\* report is no longer in the list of outstanding reports.
IgnoreOnlyHidesReport ==
    [][\A k \in 1..Len(memory_reports) :
          ignore(k) =>
              /\ Len(memory_reports') = Len(memory_reports)
              /\ memory_reports'[k] = [memory_reports[k] EXCEPT !.ignored = TRUE]
              /\ \A j \in 1..Len(memory_reports) :
                    j # k => memory_reports'[j] = memory_reports[j]
              /\ UNCHANGED <<all_complaints, memory_banned, memory_pairs, memory_queue>>
              /\ Len(active_reports(ignore_report(Mem, memory_reports[k].id)))
                    = Len(active_reports(Mem)) - 1]_vars

\* C22: a pair is created only from the wait queue: right before a wait task
\* pairs a with b, both are queued with status searching and neither is paired
\* or banned (so no idle participant is moved to chatting by a leftover task).
PairingOnlyFromQueue ==
    [][\A t \in DOMAIN tasks :
          (tick(t) /\ memory_pairs[t.uid] = None /\ memory_pairs'[t.uid] # None) =>
              \A m \in {t.uid, memory_pairs'[t.uid]} :
                  /\ InQueue(m)
                  /\ memory_status[m] = "searching"
                  /\ ~Paired(m)
                  /\ ~is_banned(Mem, m)]_vars

\* C24: no two report records present at the same time have the same id, and
\* ids grow in creation order.
ReportIdsUnique ==
    \A j, k \in 1..Len(memory_reports) :
        j < k => memory_reports[j].id < memory_reports[k].id

\* C25: the recorded status agrees with the tables: chatting exactly for the
\* participants with a pair entry, searching exactly for those with a queue
\* entry.
StatusAgreesWithTables ==
    \A p \in Users :
        /\ (memory_status[p] = "chatting") <=> Paired(p)
        /\ (memory_status[p] = "searching") <=> InQueue(p)

\* C26: each participant has at most one live wait task, and that task is the
\* one waiting_tasks holds for it.
OneRegisteredWaitTask ==
    /\ \A t \in DOMAIN tasks : t.reg /\ t.uid \in waiting_tasks /\ tasks[t] = 1
    /\ \A t, r \in DOMAIN tasks : t.uid = r.uid => t = r

\* C21: after the same operations the relational engine and the in-memory
\* engine have the same wait-queue membership with multiplicity, the same
\* pair table and the same answers of is_banned.
EnginesAgree ==
    /\ \A u \in Users :
          Cardinality({k \in 1..Len(memory_queue) : memory_queue[k] = u})
            = Cardinality({k \in 1..Len(db_engine.queue) : db_engine.queue[k] = u})
    /\ memory_pairs = db_engine.pairs
    /\ \A u \in Users : is_banned(Mem, u) = is_banned(db_engine, u)

\* C23: whatever the interleaving of the wait tasks' lookups and pair
\* creations, with the relational store as well as in memory, no participant
\* is recorded as the partner of two participants, and no participant with a
\* pair entry has a partner who is still queued.
PairingIsAtomic ==
    \A S \in {Mem, db_engine} :
        \A a \in Users :
            S.pairs[a] # None =>
                /\ \A b \in Users \ {a} : S.pairs[b] # S.pairs[a]
                /\ \A k \in 1..Len(S.queue) : S.queue[k] # S.pairs[a]
====
